---------------------------- MODULE Spec2Model ----------------------------
(***************************************************************************)
(* A model of ExpenseTracker (src/main.py): one object holding a sqlite3   *)
(* connection to a database file with the tables expenses, categories and  *)
(* budget, and the operations initialize_database, add_expense,            *)
(* get_expenses_by_category, get_monthly_summary and close.                *)
(*                                                                         *)
(* Python and SQL values are dynamically typed, so every value carries its *)
(* type: None, Str(chars), Float(n), Integer(n), Bool(b), List(s), Dict(f).*)
(* A text is the sequence of its characters, so that comparing, parsing    *)
(* and formatting are computed and not assumed.  Amounts are the floats    *)
(* with an integral value (20.0, 5.0), on which float addition is exact.   *)
(***************************************************************************)
EXTENDS Integers, Sequences, FiniteSets, TLC

\* The largest number of rows the expenses table holds in the model.
MaxExpenses == 3

---------------------------------------------------------------------------
\* Values

None == <<"None">>
Str(chars) == <<"str", chars>>
Float(n) == <<"float", n>>
Integer(n) == <<"int", n>>
Bool(b) == <<"bool", b>>
List(s) == <<"list", s>>
Dict(f) == <<"dict", f>>

IsStr(v) == v[1] = "str"
Chars(v) == v[2]

\* The byte of each character a date text is made of.
Code == ("-" :> 45) @@ ("0" :> 48) @@ ("1" :> 49) @@ ("2" :> 50) @@ ("3" :> 51)
        @@ ("4" :> 52) @@ ("5" :> 53) @@ ("6" :> 54) @@ ("7" :> 55)
        @@ ("8" :> 56) @@ ("9" :> 57)

Digits == {"0", "1", "2", "3", "4", "5", "6", "7", "8", "9"}

DigitVal(ch) == Code[ch] - 48

DigitCh(n) == CHOOSE ch \in Digits : DigitVal(ch) = n

\* The inputs the model draws from.
D_0305 == Str(<<"2", "0", "2", "4", "-", "0", "3", "-", "0", "5">>)
D_0401 == Str(<<"2", "0", "2", "4", "-", "0", "4", "-", "0", "1">>)
\* Not a calendar date (a one-digit day), with the year-month prefix 2024-03.
D_035 == Str(<<"2", "0", "2", "4", "-", "0", "3", "-", "5">>)
M_03 == Str(<<"2", "0", "2", "4", "-", "0", "3">>)
M_04 == Str(<<"2", "0", "2", "4", "-", "0", "4">>)
Food == Str(<<"F", "o", "o", "d">>)
food == Str(<<"f", "o", "o", "d">>)
Transit == Str(<<"T", "r", "a", "n", "s", "i", "t">>)
Lunch == Str(<<"l", "u", "n", "c", "h">>)
Cash == Str(<<"C", "a", "s", "h">>)
Card == Str(<<"C", "a", "r", "d">>)

Dates == {D_0305, D_0401, D_035}
Categories == {Food, food}
QueryCategories == {Food, food, Transit}
Months == {M_03, M_04}

\* add_expense's arguments: every date in every category, one tuple with
\* another amount, no description and another payment method, and one tuple
\* for each NOT NULL column with None in that place.
ValidInputs ==
    {<<d, c, Lunch, Float(20), Cash>> : d \in Dates, c \in Categories}
        \cup {<<D_0305, Food, None, Float(5), Card>>}
NullInputs ==
    {<<None, Food, Lunch, Float(5), Cash>>,
     <<D_0305, None, Lunch, Float(5), Cash>>,
     <<D_0305, Food, Lunch, None, Cash>>}
ExpenseInputs == ValidInputs \cup NullInputs

---------------------------------------------------------------------------
\* SQL

\* SQL's = : a comparison with NULL is not true.
SqlEq(a, b) == a # None /\ b # None /\ a = b

\* The BINARY collation of two texts: bytewise, a proper prefix first.
RECURSIVE TextCmp(_, _)
TextCmp(a, b) ==
    IF a = <<>> /\ b = <<>> THEN 0
    ELSE IF a = <<>> THEN -1
    ELSE IF b = <<>> THEN 1
    ELSE IF Code[Head(a)] < Code[Head(b)] THEN -1
    ELSE IF Code[Head(a)] > Code[Head(b)] THEN 1
    ELSE TextCmp(Tail(a), Tail(b))

\* SQLite's reading of a date text YYYY-MM-DD: four, two and two digits
\* between dashes, the month in 1..12 and the day in 1..31; None otherwise.
\* (SQLite also reads a time of day after the date and a Julian day number;
\* no date of the model has either.)
ParseYmd(date) ==
    LET s == Chars(date) IN
    IF /\ Len(s) = 10
       /\ s[5] = "-" /\ s[8] = "-"
       /\ \A i \in {1, 2, 3, 4, 6, 7, 9, 10} : s[i] \in Digits
    THEN LET Y == 1000 * DigitVal(s[1]) + 100 * DigitVal(s[2])
                    + 10 * DigitVal(s[3]) + DigitVal(s[4])
             M == 10 * DigitVal(s[6]) + DigitVal(s[7])
             D == 10 * DigitVal(s[9]) + DigitVal(s[10])
         IN IF M \in 1..12 /\ D \in 1..31 THEN <<Y, M, D>> ELSE None
    ELSE None

\* substr(date, 1, 7) in the place of strftime('%Y-%m', date).
Substr_Ym(date) ==
    IF date = None \/ ~IsStr(date) THEN None
    ELSE Str(SubSeq(Chars(date), 1, 7))

\* strftime('%Y-%m', date): NULL for a NULL or unreadable date, else the
\* year in four digits, a dash, the month in two.
Strftime_Ym(date) ==
    IF date = None \/ ~IsStr(date) THEN None
    ELSE LET ymd == ParseYmd(date) IN
         IF ymd = None THEN None
         ELSE LET Y == ymd[1]
                  M == ymd[2]
              IN Str(<<DigitCh(Y \div 1000), DigitCh((Y \div 100) % 10),
                       DigitCh((Y \div 10) % 10), DigitCh(Y % 10), "-",
                       DigitCh(M \div 10), DigitCh(M % 10)>>)

\* The timestamp CURRENT_TIMESTAMP gives a new row.  No operation reads the
\* column, so the model keeps the fact that it is set and not its value.
CurrentTimestamp == Str(<<"n", "o", "w">>)

\* The orders of a sequence.
Orders(n) == {p \in [1..n -> 1..n] : \A i, j \in 1..n : p[i] = p[j] => i = j}

Permuted(rows, p) == [i \in 1..Len(rows) |-> rows[p[i]]]

\* ORDER BY date DESC: the rows from the greatest date text to the least.
\* SQL leaves the order of rows with equal dates open: every order is one
\* the query may give.
IsDateDesc(rows) ==
    \A i \in 1..(Len(rows) - 1) :
        TextCmp(Chars(rows[i][2]), Chars(rows[i + 1][2])) >= 0

\* The query without its ORDER BY: the rows in rowid order.
OrderByRowid(rows) == {rows}

OrderByDateDesc(rows) ==
    {r \in {Permuted(rows, p) : p \in Orders(Len(rows))} : IsDateDesc(r)}

\* SUM(amount) of a group of rows; SUM passes over a NULL.
RECURSIVE SumAmount(_)
SumAmount(rows) ==
    IF rows = <<>> THEN 0
    ELSE IF rows[1][5] = None THEN SumAmount(Tail(rows))
    ELSE rows[1][5][2] + SumAmount(Tail(rows))

---------------------------------------------------------------------------
\* State

VARIABLES
    conn,             \* self.conn and self.cursor: "None", "open" or "closed"
    schema,           \* the tables of the database file
    expenses,         \* the rows of the expenses table, in rowid order
    sqlite_sequence,  \* the largest rowid AUTOINCREMENT has given
    last              \* the latest call: its name, arguments and outcome

vars == <<conn, schema, expenses, sqlite_sequence, last>>

Tables == {"expenses", "categories", "budget"}

Outcome(op, args, raised, ret) ==
    [op |-> op, args |-> args, pre |-> conn, raised |-> raised, ret |-> ret]

\* ExpenseTracker.__init__ up to its call of initialize_database.
Init ==
    /\ conn = "None"
    /\ schema = {}
    /\ expenses = <<>>
    /\ sqlite_sequence = 0
    /\ last = [op |-> "__init__", args |-> <<>>, pre |-> "None",
               raised |-> "none", ret |-> None]

\* The error a statement raises when there is no open connection.
ConnError == IF conn = "None" THEN "AttributeError" ELSE "ProgrammingError"

---------------------------------------------------------------------------
\* Operations

\* DROP TABLE and CREATE TABLE in the place of CREATE TABLE IF NOT EXISTS.
DropAndCreateTable(table, rows) == <<>>

\* CREATE TABLE IF NOT EXISTS: the rows of a table that exists stay, a table
\* that does not exist is created empty.
CreateTableIfNotExists(table, rows) ==
    IF table \in schema THEN rows ELSE <<>>

\* initialize_database: connect, take a cursor, ensure the three tables,
\* commit.  A connection the object held before is replaced by the new one.
initialize_database ==
    /\ conn' = "open"
    /\ schema' = schema \cup Tables
    /\ expenses' = CreateTableIfNotExists("expenses", expenses)
    /\ sqlite_sequence' =
           IF "expenses" \in schema THEN sqlite_sequence ELSE 0
    /\ last' = Outcome("initialize_database", <<>>, "none", None)

\* The expenses table with no NOT NULL on amount.
NotNullDateCategory(date, category, amount) ==
    date = None \/ category = None

\* The NOT NULL columns of the expenses table.
NotNullViolated(date, category, amount) ==
    date = None \/ category = None \/ amount = None

\* INSERT OR REPLACE on (date, category): the new row takes the place of a
\* row of the same date and category.
ReplaceExpense(rows, date, category, description, amount, payment_method) ==
    Append(SelectSeq(rows, LAMBDA r : ~(r[2] = date /\ r[3] = category)),
           <<Integer(sqlite_sequence + 1), date, category, description,
             amount, payment_method, CurrentTimestamp>>)

\* INSERT INTO expenses (date, category, description, amount,
\* payment_method): a new row at the end, its id the next AUTOINCREMENT
\* value, its created_at the column's default.
InsertExpense(rows, date, category, description, amount, payment_method) ==
    Append(rows, <<Integer(sqlite_sequence + 1), date, category, description,
                   amount, payment_method, CurrentTimestamp>>)

\* add_expense without its try and except: what the statement raises
\* reaches the caller.
add_expense_uncaught(date, category, description, amount, payment_method) ==
    LET args == <<date, category, description, amount, payment_method>> IN
    IF conn # "open"
    THEN /\ last' = Outcome("add_expense", args, ConnError, None)
         /\ UNCHANGED <<conn, schema, expenses, sqlite_sequence>>
    ELSE IF NotNullViolated(date, category, amount)
    THEN /\ last' = Outcome("add_expense", args, "IntegrityError", None)
         /\ UNCHANGED <<conn, schema, expenses, sqlite_sequence>>
    ELSE /\ Len(expenses) < MaxExpenses
         /\ expenses' = InsertExpense(expenses, date, category, description,
                                      amount, payment_method)
         /\ sqlite_sequence' = sqlite_sequence + 1
         /\ last' = Outcome("add_expense", args, "none", Bool(TRUE))
         /\ UNCHANGED <<conn, schema>>

\* add_expense connecting again when the connection is closed.
add_expense_reconnect(date, category, description, amount, payment_method) ==
    LET args == <<date, category, description, amount, payment_method>> IN
    IF conn = "None" \/ NotNullViolated(date, category, amount)
    THEN /\ last' = Outcome("add_expense", args, "none", Bool(FALSE))
         /\ UNCHANGED <<conn, schema, expenses, sqlite_sequence>>
    ELSE /\ Len(expenses) < MaxExpenses
         /\ conn' = "open"
         /\ expenses' = InsertExpense(expenses, date, category, description,
                                      amount, payment_method)
         /\ sqlite_sequence' = sqlite_sequence + 1
         /\ last' = Outcome("add_expense", args, "none", Bool(TRUE))
         /\ UNCHANGED schema

\* add_expense: True after the insert and its commit, False after any
\* exception, which it catches: no connection, or a NOT NULL column given
\* None.
add_expense(date, category, description, amount, payment_method) ==
    LET args == <<date, category, description, amount, payment_method>> IN
    IF conn # "open" \/ NotNullViolated(date, category, amount)
    THEN /\ last' = Outcome("add_expense", args, "none", Bool(FALSE))
         /\ UNCHANGED <<conn, schema, expenses, sqlite_sequence>>
    ELSE /\ Len(expenses) < MaxExpenses
         /\ expenses' = InsertExpense(expenses, date, category, description,
                                      amount, payment_method)
         /\ sqlite_sequence' = sqlite_sequence + 1
         /\ last' = Outcome("add_expense", args, "none", Bool(TRUE))
         /\ UNCHANGED <<conn, schema>>

\* _row_to_dict with the positions of two columns exchanged.
row_to_dict_swapped(row) ==
    [id |-> row[1], date |-> row[2], category |-> row[3],
     description |-> row[6], amount |-> row[5], payment_method |-> row[4]]

\* _row_to_dict: the first six columns of a row, by position.
row_to_dict(row) ==
    [id |-> row[1], date |-> row[2], category |-> row[3],
     description |-> row[4], amount |-> row[5], payment_method |-> row[6]]

\* A text with its capital F in lower case.
Lower(v) ==
    IF v = None THEN None
    ELSE Str([i \in 1..Len(Chars(v)) |->
                 IF Chars(v)[i] = "F" THEN "f" ELSE Chars(v)[i]])

\* WHERE category = ? comparing without regard to case.
WhereCategoryNoCase(rows, category) ==
    SelectSeq(rows, LAMBDA r : SqlEq(Lower(r[3]), Lower(category)))

\* WHERE category = ?
WhereCategory(rows, category) ==
    SelectSeq(rows, LAMBDA r : SqlEq(r[3], category))

\* The lists get_expenses_by_category may return from a table: the rows of
\* the category, by date descending, each as a dictionary.
CategoryResults(rows, category) ==
    {[i \in 1..Len(r) |-> row_to_dict(r[i])] :
        r \in OrderByDateDesc(WhereCategory(rows, category))}

\* get_expenses_by_category: without an open connection the statement
\* raises.
get_expenses_by_category(category) ==
    /\ IF conn # "open"
       THEN last' = Outcome("get_expenses_by_category", <<category>>,
                            ConnError, None)
       ELSE \E res \in CategoryResults(expenses, category) :
                last' = Outcome("get_expenses_by_category", <<category>>,
                                "none", List(res))
    /\ UNCHANGED <<conn, schema, expenses, sqlite_sequence>>

\* WHERE strftime('%Y-%m', date) = ?
WhereMonth(rows, month) ==
    SelectSeq(rows, LAMBDA r : SqlEq(Strftime_Ym(r[2]), month))

\* SELECT category, SUM(amount) ... GROUP BY category, as the dictionary
\* {row[0]: row[1]}.
GroupByCategorySum(rows) ==
    [c \in {rows[i][3] : i \in 1..Len(rows)} |->
        Float(SumAmount(WhereCategory(rows, c)))]

\* The dictionary get_monthly_summary returns from a table.
MonthlySummary(rows, month) == GroupByCategorySum(WhereMonth(rows, month))

\* get_monthly_summary: the sum of the month's amounts per category; without
\* an open connection the statement raises.
get_monthly_summary(month) ==
    /\ IF conn # "open"
       THEN last' = Outcome("get_monthly_summary", <<month>>, ConnError, None)
       ELSE last' = Outcome("get_monthly_summary", <<month>>, "none",
                            Dict(MonthlySummary(expenses, month)))
    /\ UNCHANGED <<conn, schema, expenses, sqlite_sequence>>

\* close raising on a connection that is closed already.
close_once ==
    /\ conn' = IF conn = "None" THEN "None" ELSE "closed"
    /\ last' = Outcome("close", <<>>,
                       IF conn = "closed" THEN "ProgrammingError" ELSE "none",
                       None)
    /\ UNCHANGED <<schema, expenses, sqlite_sequence>>

\* close: closes the connection when there is one; closing a closed
\* connection does nothing.
close ==
    /\ conn' = IF conn = "None" THEN "None" ELSE "closed"
    /\ last' = Outcome("close", <<>>, "none", None)
    /\ UNCHANGED <<schema, expenses, sqlite_sequence>>

Next ==
    \/ initialize_database
    \/ \E a \in ExpenseInputs : add_expense(a[1], a[2], a[3], a[4], a[5])
    \/ \E c \in QueryCategories : get_expenses_by_category(c)
    \/ \E m \in Months : get_monthly_summary(m)
    \/ close

Spec == Init /\ [][Next]_vars

---------------------------------------------------------------------------
\* Properties

RowFields(row) == <<row[2], row[3], row[4], row[5], row[6]>>

DictFields(d) ==
    <<d.date, d.category, d.description, d.amount, d.payment_method>>

Ids(rows) == {rows[i][1] : i \in 1..Len(rows)}

\* The number of rows of a table with the given field values.
CountFields(rows, fields) ==
    Cardinality({i \in 1..Len(rows) : RowFields(rows[i]) = fields})

AddSucceeded(l) == l.op = "add_expense" /\ l.ret = Bool(TRUE)

Returned(l, op) == l.op = op /\ l.raised = "none"

\* C1 as stated: after add_expense returns success, every list
\* get_expenses_by_category(category) may return holds exactly one record
\* with the field values given, and its identifier is that of no other
\* stored row.
C1_RoundTripExactlyOne ==
    AddSucceeded(last) =>
        \A res \in CategoryResults(expenses, last.args[2]) :
            /\ Cardinality({i \in 1..Len(res) :
                               DictFields(res[i]) = last.args}) = 1
            /\ \A i \in 1..Len(res) :
                   DictFields(res[i]) = last.args =>
                       Cardinality({j \in 1..Len(expenses) :
                                       expenses[j][1] = res[i].id}) = 1

\* C1 amended: a step in which add_expense returns success leaves a table
\* of which every list get_expenses_by_category(category) may return holds
\* exactly one record with the field values given and the new identifier;
\* no row had that identifier before and no other row has it now; and the
\* records with those field values are one more than the table held before.
C1_RoundTripNewRecord ==
    [][AddSucceeded(last') =>
          LET args == last'.args
              newId == Integer(sqlite_sequence')
          IN /\ newId \notin Ids(expenses)
             /\ Cardinality({j \in 1..Len(expenses') :
                                expenses'[j][1] = newId}) = 1
             /\ \A res \in CategoryResults(expenses', args[2]) :
                   /\ Cardinality({i \in 1..Len(res) :
                                      /\ DictFields(res[i]) = args
                                      /\ res[i].id = newId}) = 1
                   /\ Cardinality({i \in 1..Len(res) :
                                      DictFields(res[i]) = args})
                          = CountFields(expenses, args) + 1]_vars

\* C1's case: add_expense has succeeded with a tuple the table already held.
C1_Witness ==
    /\ AddSucceeded(last)
    /\ CountFields(expenses, last.args) = 2

\* The year-month prefix of a date text equals the month key.
HasPrefix(text, prefix) ==
    /\ Len(Chars(text)) >= Len(Chars(prefix))
    /\ SubSeq(Chars(text), 1, Len(Chars(prefix))) = Chars(prefix)

MonthTexts ==
    {<<"0", d>> : d \in Digits \ {"0"}} \cup {<<"1", d>> : d \in {"0", "1", "2"}}

DayTexts ==
    {<<"0", d>> : d \in Digits \ {"0"}}
        \cup {<<t, d>> : t \in {"1", "2"}, d \in Digits}
        \cup {<<"3", d>> : d \in {"0", "1"}}

\* A date text of the form YYYY-MM-DD, the month 01 to 12, the day 01 to 31.
IsYmdText(text) ==
    LET s == Chars(text) IN
    /\ Len(s) = 10
    /\ \A i \in 1..4 : s[i] \in Digits
    /\ s[5] = "-" /\ s[8] = "-"
    /\ SubSeq(s, 6, 7) \in MonthTexts
    /\ SubSeq(s, 9, 10) \in DayTexts

RECURSIVE SumOver(_, _)
SumOver(rows, idx) ==
    IF idx = {} THEN 0
    ELSE LET i == CHOOSE j \in idx : TRUE
         IN rows[i][5][2] + SumOver(rows, idx \ {i})

\* The summary a set of rows gives: their categories, each with the sum of
\* its rows' amounts.
SummaryOf(f, rows, idx) ==
    /\ DOMAIN f = {rows[i][3] : i \in idx}
    /\ \A c \in DOMAIN f :
           f[c] = Float(SumOver(rows, {i \in idx : rows[i][3] = c}))

C3_ExactCategory ==
    (last.op = "get_expenses_by_category" /\ last.pre = "open") =>
        /\ last.raised = "none"
        /\ LET res == last.ret[2]
               match == {j \in 1..Len(expenses) :
                            expenses[j][3] = last.args[1]}
           IN /\ Len(res) = Cardinality(match)
              /\ \A j \in match :
                     \E i \in 1..Len(res) :
                         /\ res[i].id = expenses[j][1]
                         /\ DictFields(res[i]) = RowFields(expenses[j])
              /\ \A i \in 1..Len(res) :
                     \E j \in match : res[i].id = expenses[j][1]
              /\ (match = {} => last.ret = List(<<>>))

\* C3's case: a query for "food" returns the empty list from a table that
\* holds a row of "Food".
C3_Witness ==
    /\ last.op = "get_expenses_by_category"
    /\ last.args[1] = food
    /\ last.ret = List(<<>>)
    /\ \E j \in 1..Len(expenses) : expenses[j][3] = Food

\* A text is at or after another in the order of their bytes: the other is a
\* prefix of it, or it has the greater byte where they first differ.
LexGeq(a, b) ==
    \/ /\ Len(b) <= Len(a)
       /\ SubSeq(a, 1, Len(b)) = b
    \/ \E k \in 1..Len(a) :
           /\ k <= Len(b)
           /\ SubSeq(a, 1, k - 1) = SubSeq(b, 1, k - 1)
           /\ Code[a[k]] > Code[b[k]]

\* C4: of any two adjacent records of the list get_expenses_by_category
\* returns, the date text of the earlier is at or after that of the later.
C4_DateDescending ==
    Returned(last, "get_expenses_by_category") =>
        LET res == last.ret[2]
        IN \A i \in 1..(Len(res) - 1) :
               LexGeq(Chars(res[i].date), Chars(res[i + 1].date))

\* C4's case: three rows inserted in another order than their dates come back
\* from the greatest date text to the least.
C4_Witness ==
    /\ Returned(last, "get_expenses_by_category")
    /\ [i \in 1..Len(expenses) |-> expenses[i][2]]
           = <<D_0305, D_0401, D_035>>
    /\ Len(last.ret[2]) = 3
    /\ [i \in 1..3 |-> last.ret[2][i].date] = <<D_0401, D_035, D_0305>>

\* C5: a step of initialize_database on an object that has connected before
\* leaves the expenses table, its identifier counter and the tables as they
\* were, and the store open.
C5_InitializeIdempotent ==
    [][(last'.op = "initialize_database" /\ conn # "None") =>
          /\ expenses' = expenses
          /\ sqlite_sequence' = sqlite_sequence
          /\ schema' = schema
          /\ conn' = "open"]_vars

\* C5's case: initialize_database called on an open store that holds rows.
C5_Witness ==
    /\ last.op = "initialize_database"
    /\ last.pre = "open"
    /\ Len(expenses) >= 2

QueryAnswers(rows) ==
    <<[c \in QueryCategories |-> CategoryResults(rows, c)],
      [m \in Months |-> MonthlySummary(rows, m)]>>

\* C6: a step of add_expense on an open store with None for date, category
\* or amount returns False, raises nothing and leaves the table, the
\* identifier counter and the answer of every query as they were; and a step
\* in which add_expense returns True adds one row, with the values given.
C6_FailureIsolation ==
    [][last'.op = "add_expense" =>
          /\ (/\ conn = "open"
              /\ \E k \in {1, 2, 4} : last'.args[k] = None)
                 => /\ last'.ret = Bool(FALSE)
                    /\ last'.raised = "none"
                    /\ expenses' = expenses
                    /\ sqlite_sequence' = sqlite_sequence
                    /\ QueryAnswers(expenses') = QueryAnswers(expenses)
          /\ last'.ret = Bool(TRUE)
                 => /\ Len(expenses') = Len(expenses) + 1
                    /\ SubSeq(expenses', 1, Len(expenses)) = expenses
                    /\ RowFields(expenses'[Len(expenses')]) = last'.args]_vars

\* C6's case: add_expense with None for the amount has returned False on an
\* open store that holds rows.
C6_Witness ==
    /\ last.op = "add_expense"
    /\ last.pre = "open"
    /\ last.args[4] = None
    /\ last.ret = Bool(FALSE)
    /\ Len(expenses) >= 1

DataOps == {"add_expense", "get_expenses_by_category", "get_monthly_summary"}

\* C7 as stated: every add_expense, get_expenses_by_category and
\* get_monthly_summary called on a closed store fails with an error.
C7_ClosedOpsRaise ==
    (last.op \in DataOps /\ last.pre = "closed") => last.raised # "none"

\* C7 amended: on a closed store get_expenses_by_category and
\* get_monthly_summary raise the connection's closed-database error and
\* return nothing, add_expense raises nothing and returns False, and none of
\* the three changes the table.
C7_ClosedOpsFail ==
    [][(last'.op \in DataOps /\ conn = "closed") =>
          /\ expenses' = expenses
          /\ sqlite_sequence' = sqlite_sequence
          /\ conn' = "closed"
          /\ IF last'.op = "add_expense"
             THEN last'.raised = "none" /\ last'.ret = Bool(FALSE)
             ELSE last'.raised = "ProgrammingError" /\ last'.ret = None]_vars

\* C7's case: add_expense with a well-formed tuple called on a closed store
\* that holds rows.
C7_Witness ==
    /\ last.op = "add_expense"
    /\ last.pre = "closed"
    /\ last.args \in ValidInputs
    /\ Len(expenses) >= 1

\* C8: a step of close on a store that is closed, or was never opened,
\* raises nothing, leaves the connection as it was, not open, and leaves the
\* table as it was.
C8_CloseIdempotent ==
    [][(last'.op = "close" /\ conn # "open") =>
          /\ last'.raised = "none"
          /\ conn' = conn
          /\ expenses' = expenses
          /\ sqlite_sequence' = sqlite_sequence
          /\ schema' = schema]_vars

\* C8's case: close called on a closed store that holds rows.
C8_Witness ==
    /\ last.op = "close"
    /\ last.pre = "closed"
    /\ conn = "closed"
    /\ Len(expenses) >= 1

Succeeded(l) ==
    \/ AddSucceeded(l)
    \/ Returned(l, "get_expenses_by_category")
    \/ Returned(l, "get_monthly_summary")

\* C9 as stated: no call brings a closed store back to open.
C9_ClosedTerminal ==
    [][conn = "closed" => conn' = "closed"]_vars

\* C9 amended: no call of add_expense, get_expenses_by_category,
\* get_monthly_summary or close brings a closed store back to open, and a
\* call of initialize_database does; a store never opened stays so or
\* opens, an open store stays open or closes; and an insert or a query
\* succeeds only on an open store.
C9_Lifecycle ==
    [][/\ conn = "closed" =>
              conn' = IF last'.op = "initialize_database"
                      THEN "open" ELSE "closed"
       /\ conn = "None" => conn' \in {"None", "open"}
       /\ conn = "open" => conn' \in {"open", "closed"}
       /\ Succeeded(last') => conn = "open"]_vars

\* C9's case: initialize_database called on a closed store, which is open
\* after it.
C9_Witness ==
    /\ last.op = "initialize_database"
    /\ last.pre = "closed"
    /\ conn = "open"

\* C10: every step keeps the rows the table held, in their places and with
\* their identifiers and values, and adds at most one; a step of any
\* operation but add_expense leaves the table as it was.
C10_AppendOnly ==
    [][/\ Len(expenses') >= Len(expenses)
       /\ Len(expenses') <= Len(expenses) + 1
       /\ SubSeq(expenses', 1, Len(expenses)) = expenses
       /\ last'.op # "add_expense" => expenses' = expenses]_vars

\* C10's case: a third row of the same date and category as the first two
\* has been added, and all three are stored.
C10_Witness ==
    /\ AddSucceeded(last)
    /\ Len(expenses) = 3
    /\ \A i \in 1..3 : expenses[i][2] = D_0401 /\ expenses[i][3] = food

===========================================================================
